---- MODULE Spec2Model ----
(***************************************************************************)
(* Tenant isolation and schema lifecycle of the optera backend:            *)
(* TenantsService (control-plane tenant records and schema provisioning),  *)
(* TenantConnectionService (the per-schema connection cache) and           *)
(* TenantGuard (the per-request tenant resolver).                          *)
(*                                                                         *)
(* Every async method is a sequence of atomic steps, one per await: a step *)
(* is the effect of the awaited database or connection call together with  *)
(* the synchronous code that follows it up to the next await.  Steps of    *)
(* different requests interleave freely (Node event loop).                 *)
(***************************************************************************)
EXTENDS Integers, FiniteSets, Sequences, TLC

\* ---------------------------------------------------------------- bounds
MaxTenants == 2
MaxConns == 2
MaxCalls == 3

\* two requests served concurrently
Procs == {"r1", "r2"}
TenantIds == 1..MaxTenants
ConnIds == 1..MaxConns

\* ---------------------------------------------------------------- inputs
Subdomains == {"acme", "beta"}
Domains == {"", "acme.com"}

\* SQL NULL in the nullable domain column
Null == "<null>"

\* enum TenantStatus
PENDING == "pending"
ACTIVE == "active"
SUSPENDED == "suspended"
INACTIVE == "inactive"
TenantStatus == {ACTIVE, INACTIVE, SUSPENDED, PENDING}

\* `tenant_${createTenantDto.subdomain}`
SchemaNameOf(subdomain) == "tenant_" \o subdomain

SchemaNames == {SchemaNameOf(s) : s \in Subdomains}

\* CreateTenantDto: subdomain is required, domain is optional
CreateDtos ==
  {[subdomain |-> s] : s \in Subdomains}
    \cup {[subdomain |-> s, domain |-> d] : s \in Subdomains, d \in Domains}

\* UpdateTenantDto: every field optional (PartialType) plus status, isActive
UpdateDtos ==
  {[subdomain |-> "beta"], [domain |-> "acme.com"],
   [status |-> ACTIVE], [status |-> SUSPENDED], [status |-> INACTIVE],
   [isActive |-> TRUE]}

\* JavaScript truthiness of an optional string property
Truthy(dto, f) == f \in DOMAIN dto /\ dto[f] # ""

\* no entity (null / undefined)
NullTenant ==
  [id |-> 0, subdomain |-> "", domain |-> Null, schemaName |-> "",
   status |-> "", isActive |-> FALSE, deleted |-> FALSE]

NoDto == [none |-> TRUE]

\* a request that runs no method
IdleFrame ==
  [op |-> "idle", pc |-> "idle", out |-> "none", id |-> 0, ent |-> NullTenant,
   dto |-> NoDto, sch |-> "", conn |-> 0, pend |-> {}, failed |-> FALSE,
   lookups |-> 0]

\* ----------------------------------------------------------------- state
VARIABLES
  tenants,            \* the tenants table: id -> row (tombstoned rows included)
  nextId,             \* next generated primary key
  schemas,            \* the physical schemas that exist in the database
  tenantConnections,  \* TenantConnectionService.tenantConnections: schema -> connection
  connections,        \* the DataSource objects created so far: id -> [schema, state]
  frames,             \* per request: the running method, its position, locals and outcome
  calls               \* the number of method calls made so far

\* the users and refresh_tokens tables and the requests to AuthService
VARIABLES
  users,              \* the users table: id -> row
  refreshTokens,      \* the refresh_tokens table: token -> row
  nextToken,          \* the next token uuidv4() generates
  pairs,              \* the token pairs refreshToken has returned: [from, token]
  authFrames,         \* per request: the running AuthService method and its locals
  authCalls           \* the number of AuthService calls made so far

tenantVars ==
  <<tenants, nextId, schemas, tenantConnections, connections, frames, calls>>

authVars == <<users, refreshTokens, nextToken, pairs, authFrames, authCalls>>

vars == <<tenants, nextId, schemas, tenantConnections, connections, frames, calls,
          users, refreshTokens, nextToken, pairs, authFrames, authCalls>>

\* a request that runs no AuthService method
IdleAuthFrame ==
  [op |-> "idle", pc |-> "idle", out |-> "none", email |-> "", password |-> "",
   user |-> 0, arg |-> 0, token |-> 0]

Init ==
  /\ tenants = <<>>
  /\ nextId = 1
  /\ schemas = {}
  /\ tenantConnections = <<>>
  /\ connections = <<>>
  /\ frames = [p \in Procs |-> IdleFrame]
  /\ calls = 0
  /\ users = <<>>
  /\ refreshTokens = <<>>
  /\ nextToken = 1
  /\ pairs = {}
  /\ authFrames = [p \in Procs |-> IdleAuthFrame]
  /\ authCalls = 0

Idle(p) == frames[p].op = "idle"

\* request p is free to call a method: it runs none, or its last one settled
Accept(p) == frames[p].pc \in {"idle", "done"} /\ calls < MaxCalls

At(p, op, pc) == frames[p].op = op /\ frames[p].pc = pc

\* the frame of a method that was just called
Call(op, pc) == [IdleFrame EXCEPT !.op = op, !.pc = pc]

\* the method of request p reaches its next await
Goto(p, f) == frames' = [frames EXCEPT ![p] = f]

\* what the caller of a settled method sees: the outcome (out = "ok" for a
\* return, else the exception thrown), the arguments, and the value returned
Settled(f, out) ==
  [IdleFrame EXCEPT !.op = f.op, !.pc = "done", !.out = out, !.id = f.id,
                    !.sch = f.sch, !.dto = f.dto,
                    !.conn = IF out = "ok" THEN f.conn ELSE 0,
                    !.ent = IF out = "ok" THEN f.ent ELSE NullTenant]

\* the method of request p settles
Finish(p, out, f) == frames' = [frames EXCEPT ![p] = Settled(f, out)]

Done(p, op) == At(p, op, "done")

\* -------------------------------------------------- Repository<Tenant>
\* rows a find sees: soft-deleted rows are filtered out
LiveRow(i) == i \in DOMAIN tenants /\ ~tenants[i].deleted

\* findOne({ where: { id } })
RepoFindOneById(id) == IF LiveRow(id) THEN tenants[id] ELSE NullTenant

\* find with where: [{ subdomain }, { domain }] (the listed conditions are OR-ed)
RepoFindWhere(where) ==
  {tenants[i] : i \in {j \in DOMAIN tenants :
      /\ LiveRow(j)
      /\ \/ "subdomain" \in DOMAIN where /\ tenants[j].subdomain = where.subdomain
         \/ "domain" \in DOMAIN where /\ tenants[j].domain = where.domain}}

\* what findOne({ where }) can return: one of the matching rows, or null
RepoFindOneWhere(where) ==
  IF RepoFindWhere(where) = {} THEN {NullTenant} ELSE RepoFindWhere(where)

\* mutant of UniqueViolation: the table has no unique index on domain
UniqueViolationNoDomainIndex(row) ==
  \E j \in DOMAIN tenants \ {row.id} :
    \/ tenants[j].subdomain = row.subdomain
    \/ tenants[j].schemaName = row.schemaName

\* the unique indexes of the tenants table (subdomain, domain, schemaName);
\* they cover every stored row, and NULL domains never collide
UniqueViolation(row) ==
  \E j \in DOMAIN tenants \ {row.id} :
    \/ tenants[j].subdomain = row.subdomain
    \/ row.domain # Null /\ tenants[j].domain = row.domain
    \/ tenants[j].schemaName = row.schemaName

\* the table after save(entity) wrote the entity's columns: an UPDATE of the
\* row with the entity's id, or an INSERT when no such row is stored
RepoSaved(entity) ==
  IF entity.id \in DOMAIN tenants
  THEN [tenants EXCEPT ![entity.id] =
          [entity EXCEPT !.deleted = tenants[entity.id].deleted]]
  ELSE [i \in DOMAIN tenants \cup {entity.id} |->
          IF i = entity.id THEN entity ELSE tenants[i]]

\* mutant of RepoDeleted: the row is tombstoned instead of removed
RepoDeletedSoftly(id) ==
  IF id \in DOMAIN tenants
  THEN [tenants EXCEPT ![id].deleted = TRUE]
  ELSE tenants

\* delete(id): the row is physically removed
RepoDeleted(id) == [i \in DOMAIN tenants \ {id} |-> tenants[i]]

\* softDelete(id): the row is kept and marked deleted
RepoSoftDeleted(id) ==
  IF id \in DOMAIN tenants
  THEN [tenants EXCEPT ![id].deleted = TRUE]
  ELSE tenants

\* ------------------------------------------------ TenantsService.create
\* creates that were called and have not inserted their row yet
PendingInserts ==
  Cardinality({q \in Procs : At(q, "create", "insert")})

CreateWhere(dto) ==
  IF Truthy(dto, "domain")
  THEN [subdomain |-> dto.subdomain, domain |-> dto.domain]
  ELSE [subdomain |-> dto.subdomain]

\* the advisory check on the row findOne returned
CreateConflict(existingTenant, dto) ==
  /\ existingTenant # NullTenant
  /\ \/ existingTenant.subdomain = dto.subdomain
     \/ "domain" \in DOMAIN dto /\ existingTenant.domain = dto.domain

\* mutant of NewTenant: the row is inserted with status ACTIVE
NewTenantActive(dto) ==
  [id |-> 0,
   subdomain |-> dto.subdomain,
   domain |-> IF "domain" \in DOMAIN dto THEN dto.domain ELSE Null,
   schemaName |-> SchemaNameOf(dto.subdomain),
   status |-> ACTIVE,
   isActive |-> TRUE,
   deleted |-> FALSE]

\* tenantRepository.create({ ...dto, schemaName, status: PENDING })
NewTenant(dto) ==
  [id |-> 0,
   subdomain |-> dto.subdomain,
   domain |-> IF "domain" \in DOMAIN dto THEN dto.domain ELSE Null,
   schemaName |-> SchemaNameOf(dto.subdomain),
   status |-> PENDING,
   isActive |-> TRUE,
   deleted |-> FALSE]

\* findOne on subdomain/domain, then the advisory check
CreateCheck(p, dto) ==
  /\ Accept(p)
  /\ nextId + PendingInserts <= MaxTenants
  /\ \E existingTenant \in RepoFindOneWhere(CreateWhere(dto)) :
       IF CreateConflict(existingTenant, dto)
       THEN Finish(p, "Conflict", [Call("create", "check") EXCEPT !.dto = dto])
       ELSE Goto(p, [Call("create", "insert") EXCEPT
                       !.ent = NewTenant(dto), !.dto = dto])
  /\ UNCHANGED <<tenants, nextId, schemas, tenantConnections, connections>>
  /\ calls' = calls + 1
  /\ UNCHANGED authVars

\* save(tenant): the INSERT, arbitrated by the unique indexes; a violation
\* rejects with the driver's QueryFailedError, outside the try block
CreateInsert(p) ==
  /\ At(p, "create", "insert")
  /\ LET row == [frames[p].ent EXCEPT !.id = nextId] IN
       IF UniqueViolation(row)
       THEN /\ Finish(p, "QueryFailed", frames[p])
            /\ UNCHANGED <<tenants, nextId>>
       ELSE /\ tenants' = RepoSaved(row)
            /\ nextId' = nextId + 1
            /\ Goto(p, [frames[p] EXCEPT !.pc = "ddl", !.ent = row, !.id = row.id])
  /\ UNCHANGED <<schemas, tenantConnections, connections>>
  /\ UNCHANGED calls
  /\ UNCHANGED authVars

\* createTenantSchema: CREATE SCHEMA IF NOT EXISTS succeeds, and the entity in
\* memory is set ACTIVE
CreateSchemaOk(p) ==
  /\ At(p, "create", "ddl")
  /\ schemas' = schemas \cup {frames[p].ent.schemaName}
  /\ Goto(p, [frames[p] EXCEPT !.pc = "flip", !.ent.status = ACTIVE])
  /\ UNCHANGED <<tenants, nextId, tenantConnections, connections>>
  /\ UNCHANGED calls
  /\ UNCHANGED authVars

\* createTenantSchema throws: control enters the catch block
CreateSchemaFail(p) ==
  /\ At(p, "create", "ddl")
  /\ Goto(p, [frames[p] EXCEPT !.pc = "compensate"])
  /\ UNCHANGED <<tenants, nextId, schemas, tenantConnections, connections>>
  /\ UNCHANGED calls
  /\ UNCHANGED authVars

\* mutant of CreateFlip: the final save is awaited inside the try, so its
\* rejection runs the compensating delete
CreateFlipCompensated(p) ==
  /\ At(p, "create", "flip")
  /\ IF UniqueViolation(frames[p].ent)
     THEN /\ tenants' = RepoDeleted(frames[p].ent.id)
          /\ Finish(p, "BadRequest", frames[p])
     ELSE /\ tenants' = RepoSaved(frames[p].ent)
          /\ Finish(p, "ok", frames[p])
  /\ UNCHANGED <<nextId, schemas, tenantConnections, connections>>
  /\ UNCHANGED calls
  /\ UNCHANGED authVars

\* return save(savedTenant): the row is written with status ACTIVE; the
\* returned promise is not awaited inside the try, so its rejection is not caught
CreateFlip(p) ==
  /\ At(p, "create", "flip")
  /\ IF UniqueViolation(frames[p].ent)
     THEN /\ Finish(p, "QueryFailed", frames[p])
          /\ UNCHANGED tenants
     ELSE /\ tenants' = RepoSaved(frames[p].ent)
          /\ Finish(p, "ok", frames[p])
  /\ UNCHANGED <<nextId, schemas, tenantConnections, connections>>
  /\ UNCHANGED calls
  /\ UNCHANGED authVars

\* catch: delete(savedTenant.id), then BadRequestException
CreateCompensate(p) ==
  /\ At(p, "create", "compensate")
  /\ tenants' = RepoDeleted(frames[p].ent.id)
  /\ Finish(p, "BadRequest", frames[p])
  /\ UNCHANGED <<nextId, schemas, tenantConnections, connections>>
  /\ UNCHANGED calls
  /\ UNCHANGED authVars

\* ----------------------------------------------- TenantsService.findOne
\* findOne(id) followed by the first synchronous step of the caller: a missing
\* row throws NotFoundException, which none of remove, suspend, activate and
\* update catches
FindOneOrThrow(p, op, id, next) ==
  IF RepoFindOneById(id) = NullTenant
  THEN Finish(p, "NotFound", [Call(op, "find") EXCEPT !.id = id])
  ELSE Goto(p, [next EXCEPT !.id = id])

\* save(tenant) of suspend, activate and update
SaveAndReturn(p, op) ==
  /\ At(p, op, "save")
  /\ IF UniqueViolation(frames[p].ent)
     THEN /\ Finish(p, "QueryFailed", frames[p])
          /\ UNCHANGED tenants
     ELSE /\ tenants' = RepoSaved(frames[p].ent)
          /\ Finish(p, "ok", frames[p])
  /\ UNCHANGED <<nextId, schemas, tenantConnections, connections>>
  /\ UNCHANGED calls
  /\ UNCHANGED authVars

\* ------------------------------------------------ TenantsService.remove
RemoveFind(p, id) ==
  /\ Accept(p)
  /\ FindOneOrThrow(p, "remove", id,
       [Call("remove", "drop") EXCEPT !.ent = RepoFindOneById(id)])
  /\ UNCHANGED <<tenants, nextId, schemas, tenantConnections, connections>>
  /\ calls' = calls + 1
  /\ UNCHANGED authVars

\* the registry after tenantConnections.delete(tenantSchema)
Evicted(sch) ==
  [k \in DOMAIN tenantConnections \ {sch} |-> tenantConnections[k]]

\* dropTenantSchema: DROP SCHEMA IF EXISTS ... CASCADE succeeds, then the
\* registry entry is deleted; sch keeps the schema the statement dropped
\* ("" when no such schema existed)
RemoveDropOk(p) ==
  /\ At(p, "remove", "drop")
  /\ schemas' = schemas \ {frames[p].ent.schemaName}
  /\ tenantConnections' = Evicted(frames[p].ent.schemaName)
  /\ Goto(p, [frames[p] EXCEPT
               !.pc = "softDelete",
               !.sch = IF frames[p].ent.schemaName \in schemas
                       THEN frames[p].ent.schemaName ELSE ""])
  /\ UNCHANGED <<tenants, nextId, connections>>
  /\ UNCHANGED calls
  /\ UNCHANGED authVars

\* mutant of RemoveDropFail: the registry entry is deleted although the drop failed
RemoveDropFailEvicts(p) ==
  /\ At(p, "remove", "drop")
  /\ tenantConnections' = Evicted(frames[p].ent.schemaName)
  /\ Finish(p, "BadRequest", frames[p])
  /\ UNCHANGED <<tenants, nextId, schemas, connections>>
  /\ UNCHANGED calls
  /\ UNCHANGED authVars

\* dropTenantSchema throws: remove's catch turns it into BadRequestException
RemoveDropFail(p) ==
  /\ At(p, "remove", "drop")
  /\ Finish(p, "BadRequest", frames[p])
  /\ UNCHANGED <<tenants, nextId, schemas, tenantConnections, connections>>
  /\ UNCHANGED calls
  /\ UNCHANGED authVars

\* softDelete(id)
RemoveSoftDelete(p) ==
  /\ At(p, "remove", "softDelete")
  /\ tenants' = RepoSoftDeleted(frames[p].ent.id)
  /\ Finish(p, "ok", frames[p])
  /\ UNCHANGED <<nextId, schemas, tenantConnections, connections>>
  /\ UNCHANGED calls
  /\ UNCHANGED authVars

\* softDelete(id) rejects after the schema was dropped: remove's catch turns
\* it into BadRequestException
RemoveSoftDeleteFail(p) ==
  /\ At(p, "remove", "softDelete")
  /\ Finish(p, "BadRequest", frames[p])
  /\ UNCHANGED <<tenants, nextId, schemas, tenantConnections, connections>>
  /\ UNCHANGED calls
  /\ UNCHANGED authVars

\* ------------------------------------- TenantsService.suspend / activate
SuspendFind(p, id) ==
  /\ Accept(p)
  /\ FindOneOrThrow(p, "suspend", id,
       [Call("suspend", "save") EXCEPT
          !.ent = [RepoFindOneById(id) EXCEPT !.status = SUSPENDED,
                                              !.isActive = FALSE]])
  /\ UNCHANGED <<tenants, nextId, schemas, tenantConnections, connections>>
  /\ calls' = calls + 1
  /\ UNCHANGED authVars

\* mutant of SuspendSave: the save also deletes the registry entry of the
\* tenant's schema
SuspendSaveEvicts(p) ==
  /\ At(p, "suspend", "save")
  /\ IF UniqueViolation(frames[p].ent)
     THEN /\ Finish(p, "QueryFailed", frames[p])
          /\ UNCHANGED tenants
     ELSE /\ tenants' = RepoSaved(frames[p].ent)
          /\ Finish(p, "ok", frames[p])
  /\ tenantConnections' = Evicted(frames[p].ent.schemaName)
  /\ UNCHANGED <<nextId, schemas, connections>>
  /\ UNCHANGED calls
  /\ UNCHANGED authVars

SuspendSave(p) == SaveAndReturn(p, "suspend")

ActivateFind(p, id) ==
  /\ Accept(p)
  /\ FindOneOrThrow(p, "activate", id,
       [Call("activate", "save") EXCEPT
          !.ent = [RepoFindOneById(id) EXCEPT !.status = ACTIVE,
                                              !.isActive = TRUE]])
  /\ UNCHANGED <<tenants, nextId, schemas, tenantConnections, connections>>
  /\ calls' = calls + 1
  /\ UNCHANGED authVars

ActivateSave(p) == SaveAndReturn(p, "activate")

\* ------------------------------------------------ TenantsService.update
\* the conditions pushed to conflictWhere
ConflictWhere(tenant, dto) ==
  [f \in {g \in {"subdomain", "domain"} : Truthy(dto, g) /\ dto[g] # tenant[g]}
     |-> dto[f]]

\* mutant of Assigned: the schemaName follows a renamed subdomain
AssignedRenamesSchema(tenant, dto) ==
  [f \in DOMAIN tenant |->
     IF f \in DOMAIN dto THEN dto[f]
     ELSE IF f = "schemaName" /\ "subdomain" \in DOMAIN dto
     THEN SchemaNameOf(dto.subdomain)
     ELSE tenant[f]]

\* Object.assign(tenant, updateTenantDto)
Assigned(tenant, dto) ==
  [f \in DOMAIN tenant |-> IF f \in DOMAIN dto THEN dto[f] ELSE tenant[f]]

UpdateFind(p, id, dto) ==
  /\ Accept(p)
  /\ LET tenant == RepoFindOneById(id) IN
       FindOneOrThrow(p, "update", id,
         IF DOMAIN ConflictWhere(tenant, dto) # {}
         THEN [Call("update", "conflict") EXCEPT !.ent = tenant, !.dto = dto]
         ELSE [Call("update", "save") EXCEPT !.ent = Assigned(tenant, dto)])
  /\ UNCHANGED <<tenants, nextId, schemas, tenantConnections, connections>>
  /\ calls' = calls + 1
  /\ UNCHANGED authVars

\* findOne({ where: conflictWhere }) and the check existingTenant.id !== id
UpdateConflictCheck(p) ==
  /\ At(p, "update", "conflict")
  /\ LET tenant == frames[p].ent
         dto == frames[p].dto
     IN \E existingTenant \in RepoFindOneWhere(ConflictWhere(tenant, dto)) :
          IF existingTenant # NullTenant /\ existingTenant.id # tenant.id
          THEN Finish(p, "Conflict", frames[p])
          ELSE Goto(p, [frames[p] EXCEPT !.pc = "save", !.dto = NoDto,
                                          !.ent = Assigned(tenant, dto)])
  /\ UNCHANGED <<tenants, nextId, schemas, tenantConnections, connections>>
  /\ UNCHANGED calls
  /\ UNCHANGED authVars

UpdateSave(p) == SaveAndReturn(p, "update")

\* ------------------------------------------------- TenantService.findById
\* any error of findOne is rethrown as NotFoundException
FindById(id) ==
  IF RepoFindOneById(id) = NullTenant
  THEN [thrown |-> "NotFound", tenant |-> NullTenant]
  ELSE [thrown |-> "none", tenant |-> RepoFindOneById(id)]

\* ------------------------------------------------ TenantGuard.canActivate
\* the x-tenant-id header: 0 is a missing (or empty) header
Headers == {0} \cup TenantIds

\* the check made on the tenant findById returned
GuardRejects(tenant) == tenant = NullTenant \/ ~tenant.isActive

\* mutant of CanActivate: the lookup is made before the header is checked
CanActivateLookupFirst(hdr) ==
  LET call == [Call("canActivate", "done") EXCEPT !.id = hdr, !.lookups = 1]
      found == IF RepoFindOneById(hdr) = NullTenant
               THEN [thrown |-> "NotFound", tenant |-> NullTenant]
               ELSE [thrown |-> "none", tenant |-> RepoFindOneById(hdr)]
  IN IF found.thrown # "none" \/ ~found.tenant.isActive
     THEN [call EXCEPT !.out = "Forbidden"]
     ELSE [call EXCEPT !.out = "ok", !.ent = found.tenant]

\* canActivate for header value hdr: the settled frame, whose ent is
\* request.tenant and whose lookups counts the findById calls made
CanActivate(hdr) ==
  LET call == [Call("canActivate", "done") EXCEPT !.id = hdr] IN
    IF hdr = 0
    THEN [call EXCEPT !.out = "BadRequest"]
    ELSE LET found == FindById(hdr) IN
           IF found.thrown # "none"
           THEN [call EXCEPT !.out = "Forbidden", !.lookups = 1]
           ELSE IF GuardRejects(found.tenant)
           THEN [call EXCEPT !.out = "Forbidden", !.lookups = 1]
           ELSE [call EXCEPT !.out = "ok", !.lookups = 1, !.ent = found.tenant]

Guard(p, hdr) ==
  /\ Accept(p)
  /\ Goto(p, CanActivate(hdr))
  /\ UNCHANGED <<tenants, nextId, schemas, tenantConnections, connections>>
  /\ calls' = calls + 1
  /\ UNCHANGED authVars

\* ------------------------- TenantConnectionService.getTenantConnection
NewConnId == Cardinality(DOMAIN connections) + 1

IsInitialized(c) == connections[c].state = "initialized"

\* tenantConnections.has(tenantSchema): return the cached DataSource;
\* otherwise construct a DataSource and call initialize()
GetLookup(p, sch) ==
  /\ Accept(p)
  /\ IF sch \in DOMAIN tenantConnections
     THEN /\ Finish(p, "ok", [Call("get", "has") EXCEPT
                                !.sch = sch, !.conn = tenantConnections[sch]])
          /\ UNCHANGED connections
     ELSE /\ NewConnId <= MaxConns
          /\ connections' =
               [c \in DOMAIN connections \cup {NewConnId} |->
                  IF c = NewConnId THEN [schema |-> sch, state |-> "new"]
                  ELSE connections[c]]
          /\ Goto(p, [Call("get", "initialize") EXCEPT
                        !.sch = sch, !.conn = NewConnId])
  /\ UNCHANGED <<tenants, nextId, schemas, tenantConnections>>
  /\ calls' = calls + 1
  /\ UNCHANGED authVars

\* the registry after tenantConnections.set(tenantSchema, connection)
Registered(sch, c) ==
  [k \in DOMAIN tenantConnections \cup {sch} |->
     IF k = sch THEN c ELSE tenantConnections[k]]

\* initialize() resolves: the connection is registered and returned
GetInitializeOk(p) ==
  /\ At(p, "get", "initialize")
  /\ connections' = [connections EXCEPT ![frames[p].conn].state = "initialized"]
  /\ tenantConnections' = Registered(frames[p].sch, frames[p].conn)
  /\ Finish(p, "ok", frames[p])
  /\ UNCHANGED <<tenants, nextId, schemas>>
  /\ UNCHANGED calls
  /\ UNCHANGED authVars

\* mutant of GetInitializeFail: the DataSource is registered before
\* initialize() settles, and stays registered when it rejects
GetInitializeFailRegistered(p) ==
  /\ At(p, "get", "initialize")
  /\ tenantConnections' = Registered(frames[p].sch, frames[p].conn)
  /\ Finish(p, "ConnectionError", frames[p])
  /\ UNCHANGED <<tenants, nextId, schemas, connections>>
  /\ UNCHANGED calls
  /\ UNCHANGED authVars

\* initialize() rejects: the error propagates to the caller
GetInitializeFail(p) ==
  /\ At(p, "get", "initialize")
  /\ Finish(p, "ConnectionError", frames[p])
  /\ UNCHANGED <<tenants, nextId, schemas, tenantConnections, connections>>
  /\ UNCHANGED calls
  /\ UNCHANGED authVars

\* ------------------------ TenantConnectionService.closeTenantConnection
\* mutant of CloseLookup: destroy() is called on every cached DataSource,
\* initialized or not
CloseLookupUnguarded(p, sch) ==
  /\ Accept(p)
  /\ IF sch \in DOMAIN tenantConnections
     THEN Goto(p, [Call("close", "destroy") EXCEPT
                     !.sch = sch, !.conn = tenantConnections[sch]])
     ELSE Finish(p, "ok", [Call("close", "get") EXCEPT !.sch = sch])
  /\ UNCHANGED <<tenants, nextId, schemas, tenantConnections, connections>>
  /\ calls' = calls + 1
  /\ UNCHANGED authVars

\* get(tenantSchema) and the check connection && connection.isInitialized
CloseLookup(p, sch) ==
  /\ Accept(p)
  /\ IF sch \in DOMAIN tenantConnections /\ IsInitialized(tenantConnections[sch])
     THEN Goto(p, [Call("close", "destroy") EXCEPT
                     !.sch = sch, !.conn = tenantConnections[sch]])
     ELSE Finish(p, "ok", [Call("close", "get") EXCEPT !.sch = sch])
  /\ UNCHANGED <<tenants, nextId, schemas, tenantConnections, connections>>
  /\ calls' = calls + 1
  /\ UNCHANGED authVars

\* destroy() resolves, then tenantConnections.delete(tenantSchema); destroy()
\* of a DataSource that another caller destroyed meanwhile rejects
CloseDestroy(p) ==
  /\ At(p, "close", "destroy")
  /\ IF IsInitialized(frames[p].conn)
     THEN /\ connections' = [connections EXCEPT ![frames[p].conn].state = "destroyed"]
          /\ tenantConnections' = Evicted(frames[p].sch)
          /\ Finish(p, "ok", frames[p])
     ELSE /\ Finish(p, "NotConnected", frames[p])
          /\ UNCHANGED <<tenantConnections, connections>>
  /\ UNCHANGED <<tenants, nextId, schemas>>
  /\ UNCHANGED calls
  /\ UNCHANGED authVars

\* -------------------------- TenantConnectionService.closeAllConnections
\* the entries whose callback calls destroy()
CloseAllBegin(p) ==
  /\ Accept(p)
  /\ Goto(p, [Call("closeAll", "destroyAll") EXCEPT
        !.pend = {tenantConnections[k] : k \in
                    {j \in DOMAIN tenantConnections :
                       IsInitialized(tenantConnections[j])}}])
  /\ UNCHANGED <<tenants, nextId, schemas, tenantConnections, connections>>
  /\ calls' = calls + 1
  /\ UNCHANGED authVars

\* one of the pending destroy() calls settles
CloseAllDestroy(p) ==
  /\ At(p, "closeAll", "destroyAll")
  /\ \E c \in frames[p].pend :
       IF IsInitialized(c)
       THEN /\ connections' = [connections EXCEPT ![c].state = "destroyed"]
            /\ Goto(p, [frames[p] EXCEPT !.pend = @ \ {c}])
       ELSE /\ UNCHANGED connections
            /\ Goto(p, [frames[p] EXCEPT !.pend = @ \ {c}, !.failed = TRUE])
  /\ UNCHANGED <<tenants, nextId, schemas, tenantConnections>>
  /\ UNCHANGED calls
  /\ UNCHANGED authVars

\* Promise.all settled: tenantConnections.clear(), unless a destroy() rejected
CloseAllClear(p) ==
  /\ At(p, "closeAll", "destroyAll")
  /\ frames[p].pend = {}
  /\ IF frames[p].failed
     THEN /\ Finish(p, "NotConnected", frames[p])
          /\ UNCHANGED tenantConnections
     ELSE /\ tenantConnections' = <<>>
          /\ Finish(p, "ok", frames[p])
  /\ UNCHANGED <<tenants, nextId, schemas, connections>>
  /\ UNCHANGED calls
  /\ UNCHANGED authVars

\* ---------------------------------------------------------------- system
Create(p) ==
  \/ \E dto \in CreateDtos : CreateCheck(p, dto)
  \/ CreateInsert(p)
  \/ CreateSchemaOk(p)
  \/ CreateSchemaFail(p)
  \/ CreateFlip(p)
  \/ CreateCompensate(p)

Remove(p) ==
  \/ \E id \in TenantIds : RemoveFind(p, id)
  \/ RemoveDropOk(p)
  \/ RemoveDropFail(p)
  \/ RemoveSoftDelete(p)
  \/ RemoveSoftDeleteFail(p)

SuspendActivate(p) ==
  \/ \E id \in TenantIds : SuspendFind(p, id)
  \/ SuspendSave(p)
  \/ \E id \in TenantIds : ActivateFind(p, id)
  \/ ActivateSave(p)

Update(p) ==
  \/ \E id \in TenantIds, dto \in UpdateDtos : UpdateFind(p, id, dto)
  \/ UpdateConflictCheck(p)
  \/ UpdateSave(p)

Get(p) ==
  \/ \E sch \in SchemaNames : GetLookup(p, sch)
  \/ GetInitializeOk(p)
  \/ GetInitializeFail(p)

Close(p) ==
  \/ \E sch \in SchemaNames : CloseLookup(p, sch)
  \/ CloseDestroy(p)

CloseAll(p) ==
  \/ CloseAllBegin(p)
  \/ CloseAllDestroy(p)
  \/ CloseAllClear(p)

\* every operation
Next ==
  \E p \in Procs :
    \/ Create(p)
    \/ Remove(p)
    \/ SuspendActivate(p)
    \/ Update(p)
    \/ \E hdr \in Headers : Guard(p, hdr)
    \/ Get(p)
    \/ Close(p)
    \/ CloseAll(p)

Spec == Init /\ [][Next]_vars

\* ============================================================ AuthService
MaxUsers == 2
MaxTokens == 3
MaxAuthCalls == 3

UserIds == 1..MaxUsers
TokenIds == 1..MaxTokens

Emails == {"john.doe@example.com", "jane@example.com"}
Passwords == {"password123", "wrongpassword"}

\* bcrypt.hash(password, 12) and bcrypt.compare(password, hash)
Hash(password) == "$2a$12$" \o password
Compare(password, hash) == hash = Hash(password)

\* the body of POST /auth/register: email and password (tenantId is absent)
RegisterDtos == {[email |-> e, password |-> "password123"] : e \in Emails}

\* the body of POST /auth/login
LoginDtos == {[email |-> e, password |-> w] : e \in Emails, w \in Passwords}

AuthAt(p, op, pc) == authFrames[p].op = op /\ authFrames[p].pc = pc

AuthDone(p, op) == AuthAt(p, op, "done")

\* calls in flight that will still call generateRefreshToken
PendingTokens ==
  Cardinality({q \in Procs : authFrames[q].pc \notin {"idle", "done"}})

\* request p is free to call a method that may generate a token
AuthAccept(p) ==
  /\ authFrames[p].pc \in {"idle", "done"}
  /\ authCalls < MaxAuthCalls
  /\ nextToken + PendingTokens <= MaxTokens

AuthCall(op, pc) == [IdleAuthFrame EXCEPT !.op = op, !.pc = pc]

AuthGoto(p, f) == authFrames' = [authFrames EXCEPT ![p] = f]

\* the method settles: out = "ok" for a return (token is the refresh token
\* returned), else the exception thrown
AuthFinish(p, out, f) ==
  authFrames' = [authFrames EXCEPT ![p] =
    [IdleAuthFrame EXCEPT !.op = f.op, !.pc = "done", !.out = out,
                          !.email = f.email, !.password = f.password,
                          !.arg = f.arg,
                          !.user = IF out = "ok" THEN f.user ELSE 0,
                          !.token = IF out = "ok" THEN f.token ELSE 0]]

\* userRepository.findOne({ where: { email } }): one of the matching rows, or
\* 0 for null
FindOneUser(email) ==
  IF {i \in DOMAIN users : users[i].email = email} = {}
  THEN {0}
  ELSE {i \in DOMAIN users : users[i].email = email}

\* the unique index of users on (email, tenantId): rows whose tenantId is
\* NULL never collide
UserUniqueViolation(row) ==
  \E j \in DOMAIN users :
    /\ users[j].email = row.email
    /\ row.tenantId # Null /\ users[j].tenantId = row.tenantId

\* the refresh_tokens table after generateRefreshToken(userId) saved its row
Generated(userId) ==
  [t \in DOMAIN refreshTokens \cup {nextToken} |->
     IF t = nextToken
     THEN [userId |-> userId, isRevoked |-> FALSE, expired |-> FALSE]
     ELSE refreshTokens[t]]

\* generateRefreshToken as the last step of register, login and refreshToken
GenerateAndReturn(p) ==
  /\ refreshTokens' = Generated(authFrames[p].user)
  /\ nextToken' = nextToken + 1
  /\ AuthFinish(p, "ok", [authFrames[p] EXCEPT !.token = nextToken])

\* ------------------------------------------------------------- register
\* calls of register between their findOne and their save
PendingUsers ==
  Cardinality({q \in Procs : AuthAt(q, "register", "save")})

\* register up to its await of findOne: an existing user is a conflict
RegisterCheck(p, dto) ==
  /\ AuthAccept(p)
  /\ Len(users) + PendingUsers < MaxUsers
  /\ \E existing \in FindOneUser(dto.email) :
       IF existing # 0
       THEN AuthFinish(p, "Conflict",
                       [AuthCall("register", "check") EXCEPT !.email = dto.email])
       ELSE AuthGoto(p, [AuthCall("register", "save") EXCEPT
                           !.email = dto.email,
                           !.password = Hash(dto.password)])
  /\ authCalls' = authCalls + 1
  /\ UNCHANGED <<users, refreshTokens, nextToken, pairs>>
  /\ UNCHANGED tenantVars

\* the row register creates: active, without a tenant
NewUser(f) ==
  [email |-> f.email, password |-> f.password, isActive |-> TRUE,
   tenantId |-> Null]

\* register's userRepository.save(user)
RegisterSave(p) ==
  /\ AuthAt(p, "register", "save")
  /\ IF UserUniqueViolation(NewUser(authFrames[p]))
     THEN /\ AuthFinish(p, "QueryFailed", authFrames[p])
          /\ UNCHANGED users
     ELSE /\ users' = Append(users, NewUser(authFrames[p]))
          /\ AuthGoto(p, [authFrames[p] EXCEPT !.pc = "token",
                                                !.user = Len(users) + 1])
  /\ UNCHANGED <<refreshTokens, nextToken, pairs, authCalls>>
  /\ UNCHANGED tenantVars

\* register's generateRefreshToken(savedUser.id) and its return
RegisterToken(p) ==
  /\ AuthAt(p, "register", "token")
  /\ GenerateAndReturn(p)
  /\ UNCHANGED <<users, pairs, authCalls>>
  /\ UNCHANGED tenantVars

\* ---------------------------------------------------------------- login
\* validateUser without its isActive test
ValidateUserIgnoresActive(u, password) ==
  IF u # 0 /\ Compare(password, users[u].password) THEN u ELSE 0

\* validateUser(email, password): the user id, 0 for null, or -1 for the
\* UnauthorizedException('Account is deactivated')
ValidateUser(u, password) ==
  IF u # 0 /\ Compare(password, users[u].password)
  THEN IF ~users[u].isActive THEN -1 ELSE u
  ELSE 0

\* login up to its await of validateUser
LoginValidate(p, dto) ==
  /\ AuthAccept(p)
  /\ \E u \in FindOneUser(dto.email) :
       IF ValidateUser(u, dto.password) > 0
       THEN AuthGoto(p, [AuthCall("login", "token") EXCEPT
                           !.email = dto.email, !.password = dto.password,
                           !.user = u])
       ELSE AuthFinish(p, "Unauthorized",
                       [AuthCall("login", "validate") EXCEPT
                           !.email = dto.email, !.password = dto.password])
  /\ authCalls' = authCalls + 1
  /\ UNCHANGED <<users, refreshTokens, nextToken, pairs>>
  /\ UNCHANGED tenantVars

\* login's generateRefreshToken(user.id) and its return
LoginToken(p) ==
  /\ AuthAt(p, "login", "token")
  /\ GenerateAndReturn(p)
  /\ UNCHANGED <<users, pairs, authCalls>>
  /\ UNCHANGED tenantVars

\* --------------------------------------------------------- refreshToken
\* validateRefreshToken(token) up to its await of findOne
RefreshValidate(p, tok) ==
  /\ AuthAccept(p)
  /\ IF tok \notin DOMAIN refreshTokens
     THEN AuthFinish(p, "Unauthorized",
                     [AuthCall("refresh", "validate") EXCEPT !.arg = tok])
     ELSE IF refreshTokens[tok].isRevoked
     THEN AuthFinish(p, "Unauthorized",
                     [AuthCall("refresh", "validate") EXCEPT !.arg = tok])
     ELSE IF refreshTokens[tok].expired
     THEN AuthGoto(p, [AuthCall("refresh", "expire") EXCEPT !.arg = tok])
     ELSE AuthGoto(p, [AuthCall("refresh", "user") EXCEPT
                         !.arg = tok, !.user = refreshTokens[tok].userId])
  /\ authCalls' = authCalls + 1
  /\ UNCHANGED <<users, refreshTokens, nextToken, pairs>>
  /\ UNCHANGED tenantVars

\* validateRefreshToken's delete of the expired row, then its throw
RefreshDeleteExpired(p) ==
  /\ AuthAt(p, "refresh", "expire")
  /\ refreshTokens' = [t \in DOMAIN refreshTokens \ {authFrames[p].arg} |->
                         refreshTokens[t]]
  /\ AuthFinish(p, "Unauthorized", authFrames[p])
  /\ UNCHANGED <<users, nextToken, pairs, authCalls>>
  /\ UNCHANGED tenantVars

\* refreshToken's userRepository.findOne by id and its isActive test
RefreshFindUser(p) ==
  /\ AuthAt(p, "refresh", "user")
  /\ IF authFrames[p].user \notin DOMAIN users
        \/ ~users[authFrames[p].user].isActive
     THEN AuthFinish(p, "Unauthorized", authFrames[p])
     ELSE AuthGoto(p, [authFrames[p] EXCEPT !.pc = "revokeFind"])
  /\ UNCHANGED <<users, refreshTokens, nextToken, pairs, authCalls>>
  /\ UNCHANGED tenantVars

\* revokeRefreshToken's findOne
RefreshRevokeFind(p) ==
  /\ AuthAt(p, "refresh", "revokeFind")
  /\ AuthGoto(p, [authFrames[p] EXCEPT
                    !.pc = IF authFrames[p].arg \in DOMAIN refreshTokens
                           THEN "revokeSave" ELSE "generate"])
  /\ UNCHANGED <<users, refreshTokens, nextToken, pairs, authCalls>>
  /\ UNCHANGED tenantVars

\* the refresh_tokens table after revokeRefreshToken saved the entity it
\* read with isRevoked = true (save inserts the row again if it was deleted)
Revoked(tok, userId) ==
  [t \in DOMAIN refreshTokens \cup {tok} |->
     IF t # tok THEN refreshTokens[t]
     ELSE IF tok \in DOMAIN refreshTokens
     THEN [refreshTokens[tok] EXCEPT !.isRevoked = TRUE]
     ELSE [userId |-> userId, isRevoked |-> TRUE, expired |-> TRUE]]

\* revokeRefreshToken's save
RefreshRevokeSave(p) ==
  /\ AuthAt(p, "refresh", "revokeSave")
  /\ refreshTokens' = Revoked(authFrames[p].arg, authFrames[p].user)
  /\ AuthGoto(p, [authFrames[p] EXCEPT !.pc = "generate"])
  /\ UNCHANGED <<users, nextToken, pairs, authCalls>>
  /\ UNCHANGED tenantVars

\* refreshToken's generateRefreshToken(user.id) and its return: the old
\* token has been exchanged for the new one
RefreshGenerate(p) ==
  /\ AuthAt(p, "refresh", "generate")
  /\ GenerateAndReturn(p)
  /\ pairs' = pairs \cup {[from |-> authFrames[p].arg, token |-> nextToken]}
  /\ UNCHANGED <<users, authCalls>>
  /\ UNCHANGED tenantVars

\* ------------------------------------------------------- the environment
\* UsersService.deactivate(id)
Deactivate(id) ==
  /\ authCalls < MaxAuthCalls
  /\ id \in DOMAIN users
  /\ users[id].isActive
  /\ users' = [users EXCEPT ![id].isActive = FALSE]
  /\ authCalls' = authCalls + 1
  /\ UNCHANGED <<refreshTokens, nextToken, pairs, authFrames>>
  /\ UNCHANGED tenantVars

\* the clock passes a token's expiresAt
TokenExpires(t) ==
  /\ t \in DOMAIN refreshTokens
  /\ ~refreshTokens[t].expired
  /\ refreshTokens' = [refreshTokens EXCEPT ![t].expired = TRUE]
  /\ UNCHANGED <<users, nextToken, pairs, authFrames, authCalls>>
  /\ UNCHANGED tenantVars

Register ==
  \E p \in Procs :
    \/ \E dto \in RegisterDtos : RegisterCheck(p, dto)
    \/ RegisterSave(p)
    \/ RegisterToken(p)

Login ==
  \E p \in Procs :
    \/ \E dto \in LoginDtos : LoginValidate(p, dto)
    \/ LoginToken(p)

Refresh ==
  \E p \in Procs :
    \/ \E tok \in TokenIds : RefreshValidate(p, tok)
    \/ RefreshDeleteExpired(p)
    \/ RefreshFindUser(p)
    \/ RefreshRevokeFind(p)
    \/ RefreshRevokeSave(p)
    \/ RefreshGenerate(p)

NextAuth ==
  \/ Register
  \/ Login
  \/ Refresh
  \/ \E id \in UserIds : Deactivate(id)
  \/ \E t \in TokenIds : TokenExpires(t)

SpecAuth == Init /\ [][NextAuth]_vars

\* ================================================================ claims

\* a stored row that finds see (not tombstoned)
Live(i) == i \in DOMAIN tenants /\ ~tenants[i].deleted

\* the usability invariant of the data model
Usable(t) == t.status = ACTIVE /\ t.isActive

\* ---------------------------------------------------------------- C1
\* C1: every live tenant record whose status is ACTIVE has an existing
\* physical schema named by its schemaName.
C1_ActiveImpliesSchema ==
  \A i \in DOMAIN tenants :
    (Live(i) /\ tenants[i].status = ACTIVE) => tenants[i].schemaName \in schemas

\* ---------------------------------------------------------------- C2
\* C2: when two creates of one subdomain both pass the advisory check before
\* either inserts, the one that inserts second fails with ConflictError,
\* inserts nothing and creates no schema.
C2_RaceLoserGetsConflict ==
  [][\A p \in Procs :
       (/\ CreateInsert(p)
        /\ \E i \in DOMAIN tenants :
             Live(i) /\ tenants[i].subdomain = frames[p].dto.subdomain)
       => (/\ frames'[p].out = "Conflict"
           /\ tenants' = tenants
           /\ schemas' = schemas)]_vars

\* ---------------------------------------------------------------- C3
\* C3: a get that arrives while an initialization for the same schema is in
\* flight starts no second one, so at most one connection per schema is
\* being established or established at a time.
C3_SingleFlight ==
  /\ \A p, q \in Procs :
       (p # q /\ At(p, "get", "initialize") /\ At(q, "get", "initialize"))
         => frames[p].sch # frames[q].sch
  /\ \A p, q \in Procs :
       (/\ Done(p, "get") /\ Done(q, "get")
        /\ frames[p].out = "ok" /\ frames[q].out = "ok"
        /\ frames[p].sch = frames[q].sch
        /\ IsInitialized(frames[p].conn) /\ IsInitialized(frames[q].conn))
         => frames[p].conn = frames[q].conn

\* ---------------------------------------------------------------- C4
\* some stored row of table t holds a handle of the record create(dto) inserts
HandleHeld(t, dto) ==
  \E j \in DOMAIN t :
    \/ t[j].subdomain = dto.subdomain
    \/ "domain" \in DOMAIN dto /\ t[j].domain = dto.domain
    \/ t[j].schemaName = SchemaNameOf(dto.subdomain)

\* C4: when the schema DDL of a create failed, the compensating step deletes
\* the row that create inserted and nothing else, create throws the
\* provisioning error, and the handles of that row are free again.
C4_DdlFailureCompensates ==
  [][\A p \in Procs :
       CreateCompensate(p) =>
         /\ frames[p].id \notin DOMAIN tenants'
         /\ \A j \in DOMAIN tenants \ {frames[p].id} :
              j \in DOMAIN tenants' /\ tenants'[j] = tenants[j]
         /\ frames'[p].pc = "done" /\ frames'[p].out = "BadRequest"
         /\ schemas' = schemas
         /\ (/\ frames[p].id \in DOMAIN tenants
             /\ tenants[frames[p].id] = frames[p].ent)
              => ~HandleHeld(tenants', frames[p].dto)]_vars

\* a create failed in provisioning and a following create of the same draft
\* has inserted its row
C4_Witness ==
  \E p, q \in Procs :
    /\ Done(p, "create") /\ frames[p].out = "BadRequest"
    /\ frames[p].id \notin DOMAIN tenants
    /\ At(q, "create", "ddl") /\ frames[q].dto = frames[p].dto
    /\ Live(frames[q].id)

\* ---------------------------------------------------------------- C5
\* C5: when the schema drop of remove(id) fails, remove throws, and no step it
\* took changed a tenant row, a schema, or the registry.
C5_DropFailureAborts ==
  [][\A p \in Procs :
       /\ RemoveDropFail(p) =>
            /\ frames'[p].pc = "done" /\ frames'[p].out = "BadRequest"
            /\ UNCHANGED <<tenants, schemas, tenantConnections, connections>>
       /\ (\E id \in TenantIds : RemoveFind(p, id)) =>
            UNCHANGED <<tenants, schemas, tenantConnections, connections>>]_vars

\* remove failed on the drop: the record is live and ACTIVE, its schema exists
\* and its connection is still cached
C5_Witness ==
  \E p \in Procs :
    /\ Done(p, "remove") /\ frames[p].out = "BadRequest"
    /\ Live(frames[p].id)
    /\ tenants[frames[p].id].status = ACTIVE
    /\ tenants[frames[p].id].schemaName \in schemas
    /\ tenants[frames[p].id].schemaName \in DOMAIN tenantConnections
    /\ IsInitialized(tenantConnections[tenants[frames[p].id].schemaName])

\* ---------------------------------------------------------------- C6
\* C6: the resolver admits a tenant id exactly when its record is live with
\* status ACTIVE and isActive true, and a tenant it attached was such a record.
C6_AdmitsIffUsable ==
  /\ \A hdr \in TenantIds :
       (CanActivate(hdr).out = "ok") <=> (Live(hdr) /\ Usable(tenants[hdr]))
  /\ \A p \in Procs :
       (Done(p, "canActivate") /\ frames[p].out = "ok") => Usable(frames[p].ent)

\* ---------------------------------------------------------------- C7
\* C7: a request without tenant identifier is rejected with BadRequest, no
\* findById call is made for it and no tenant is attached to it.
C7_MissingHeaderRejected ==
  \A p \in Procs :
    (Done(p, "canActivate") /\ frames[p].id = 0) =>
      /\ frames[p].out = "BadRequest"
      /\ frames[p].lookups = 0
      /\ frames[p].ent = NullTenant

\* a request without identifier was rejected while a usable tenant exists
C7_Witness ==
  \E p \in Procs :
    /\ Done(p, "canActivate") /\ frames[p].id = 0
    /\ frames[p].out = "BadRequest"
    /\ \E i \in DOMAIN tenants : Live(i) /\ Usable(tenants[i])

\* ---------------------------------------------------------------- C8
\* C8: an identifier that names no live record (unknown or tombstoned), or a
\* record whose status is SUSPENDED, is rejected with Forbidden, never with
\* NotFound, and nothing is attached; an identifier that names a live ACTIVE
\* and active record is admitted with that record attached.
C8_ResolverOutcomes ==
  /\ \A hdr \in TenantIds :
       LET r == CanActivate(hdr) IN
         /\ r.out \in {"ok", "Forbidden"}
         /\ ~Live(hdr) => (r.out = "Forbidden" /\ r.ent = NullTenant)
         /\ (Live(hdr) /\ tenants[hdr].status = SUSPENDED)
              => (r.out = "Forbidden" /\ r.ent = NullTenant)
         /\ (Live(hdr) /\ Usable(tenants[hdr]))
              => (r.out = "ok" /\ r.ent = tenants[hdr])
  /\ \A p \in Procs :
       Done(p, "canActivate") =>
         /\ frames[p].out \in {"ok", "Forbidden", "BadRequest"}
         /\ frames[p].out # "ok" => frames[p].ent = NullTenant
         /\ frames[p].out = "ok" => frames[p].ent.id = frames[p].id

\* ---------------------------------------------------------------- C9
\* C9: create inserts its row with status PENDING and schemaName
\* "tenant_" + subdomain before the schema exists, then creates the schema
\* without touching the row, then writes status ACTIVE and returns the ACTIVE
\* record; it reaches each step only from the one before.
C9_PendingSchemaActive ==
  [][\A p \in Procs :
       /\ (CreateInsert(p) /\ frames'[p].pc = "ddl") =>
            /\ tenants'[frames'[p].id].status = PENDING
            /\ tenants'[frames'[p].id].subdomain = frames[p].dto.subdomain
            /\ tenants'[frames'[p].id].schemaName = "tenant_" \o frames[p].dto.subdomain
            /\ schemas' = schemas
       /\ CreateSchemaOk(p) =>
            /\ schemas' = schemas \cup {"tenant_" \o frames[p].dto.subdomain}
            /\ tenants' = tenants
       /\ (CreateFlip(p) /\ frames'[p].out = "ok") =>
            /\ tenants'[frames[p].id].status = ACTIVE
            /\ frames'[p].ent.id = frames[p].id
            /\ frames'[p].ent.status = ACTIVE
            /\ frames'[p].ent.schemaName = "tenant_" \o frames'[p].dto.subdomain
       /\ (At(p, "create", "ddl")' /\ ~At(p, "create", "ddl"))
            => At(p, "create", "insert")
       /\ (At(p, "create", "flip")' /\ ~At(p, "create", "flip"))
            => At(p, "create", "ddl")
       /\ (Done(p, "create")' /\ frames'[p].out = "ok" /\ frames'[p] # frames[p])
            => At(p, "create", "flip")]_vars

\* create of "acme" returned the ACTIVE record of schema "tenant_acme"
C9_Witness ==
  \E p \in Procs :
    /\ Done(p, "create") /\ frames[p].out = "ok"
    /\ frames[p].dto.subdomain = "acme"
    /\ frames[p].ent.status = ACTIVE
    /\ frames[p].ent.schemaName = "tenant_acme"
    /\ Live(frames[p].id) /\ tenants[frames[p].id].status = ACTIVE
    /\ "tenant_acme" \in schemas

\* --------------------------------------------------------------- C10
\* C10: a create called while a stored record holds its subdomain or its
\* domain is rejected at once with ConflictError, and changes no row and no
\* schema.
C10_HeldHandleConflict ==
  [][\A p \in Procs, dto \in CreateDtos :
       (/\ CreateCheck(p, dto)
        /\ \E i \in DOMAIN tenants :
             \/ tenants[i].subdomain = dto.subdomain
             \/ "domain" \in DOMAIN dto /\ tenants[i].domain = dto.domain)
       => (/\ frames'[p].pc = "done" /\ frames'[p].out = "Conflict"
           /\ tenants' = tenants
           /\ schemas' = schemas)]_vars

\* --------------------------------------------------------------- C11
\* the record with this id is in the state suspend leaves
Suspended(id) ==
  Live(id) /\ tenants[id].status = SUSPENDED /\ ~tenants[id].isActive

\* C11: the save of suspend leaves the record SUSPENDED with isActive false;
\* from then on the resolver rejects the id with Forbidden until the save of
\* an activate; the save of activate leaves the record ACTIVE with isActive
\* true and the resolver admits the id.
C11_SuspendedUntilActivate ==
  [][/\ \A p \in Procs :
          (SuspendSave(p) /\ frames'[p].out = "ok" /\ Live(frames[p].id)) =>
            /\ Suspended(frames[p].id)'
            /\ CanActivate(frames[p].id)'.out = "Forbidden"
     /\ \A id \in TenantIds :
          (/\ Suspended(id)
           /\ ~\E p \in Procs : ActivateSave(p) /\ frames[p].id = id)
            => CanActivate(id)'.out = "Forbidden"
     /\ \A p \in Procs :
          (ActivateSave(p) /\ frames'[p].out = "ok" /\ Live(frames[p].id)) =>
            /\ Usable(tenants'[frames[p].id])
            /\ CanActivate(frames[p].id)'.out = "ok"]_vars

\* --------------------------------------------------------------- C12
\* C12: when remove(id) returns, the schema of the record does not exist, the
\* record is stored and tombstoned, a lookup by the id finds nothing and the
\* resolver rejects the id.
C12_RemovedIsGone ==
  [][\A p \in Procs :
       (RemoveSoftDelete(p) /\ frames'[p].out = "ok") =>
         /\ frames[p].ent.schemaName \notin schemas'
         /\ frames[p].id \in DOMAIN tenants'
         /\ tenants'[frames[p].id].deleted
         /\ RepoFindOneById(frames[p].id)' = NullTenant
         /\ CanActivate(frames[p].id)'.out = "Forbidden"]_vars

\* --------------------------------------------------------------- C13
\* C13: no step changes the schemaName of a stored record, and create assigns
\* it as "tenant_" + subdomain when it inserts the record.
C13_SchemaNameImmutable ==
  [][/\ \A i \in DOMAIN tenants \cap DOMAIN tenants' :
          tenants'[i].schemaName = tenants[i].schemaName
     /\ \A p \in Procs :
          (CreateInsert(p) /\ frames'[p].pc = "ddl") =>
            tenants'[frames'[p].id].schemaName
              = "tenant_" \o frames[p].dto.subdomain]_vars

\* an update renamed the subdomain of a record to "beta" and its schemaName
\* still is the one assigned at creation
C13_Witness ==
  \E p \in Procs, i \in DOMAIN tenants :
    /\ Done(p, "update") /\ frames[p].out = "ok" /\ frames[p].id = i
    /\ tenants[i].subdomain = "beta"
    /\ tenants[i].schemaName = "tenant_acme"

\* --------------------------------------------------------------- C14
\* C14: no two stored tenant records have the same subdomain, and no two
\* have the same non-empty domain.
C14_HandlesUnique ==
  \A i, j \in DOMAIN tenants :
    i # j =>
      /\ tenants[i].subdomain # tenants[j].subdomain
      /\ tenants[i].domain \notin {Null, ""}
           => tenants[i].domain # tenants[j].domain

\* two records are stored and the save of an update that had passed its
\* advisory check was rejected by a unique index
C14_Witness ==
  /\ Cardinality(DOMAIN tenants) = 2
  /\ \E p \in Procs : Done(p, "update") /\ frames[p].out = "QueryFailed"

\* --------------------------------------------------------------- C15
\* C15: among the connections the registry created, at most one per schema
\* name is established and not closed.
C15_OneLiveConnectionPerSchema ==
  \A c, d \in DOMAIN connections :
    (/\ IsInitialized(c) /\ IsInitialized(d)
     /\ connections[c].schema = connections[d].schema) => c = d

\* --------------------------------------------------------------- C16
\* C16: a get whose initialize() rejects throws that error and leaves the
\* registry as it was, without an entry for its DataSource; no registry
\* entry ever holds a DataSource that was not initialized; and a get for a
\* schema without entry starts the initialization of a new DataSource.
C16_FailedGetLeavesNoEntry ==
  [][/\ \A p \in Procs :
          GetInitializeFail(p) =>
            /\ frames'[p].pc = "done" /\ frames'[p].out = "ConnectionError"
            /\ tenantConnections' = tenantConnections
            /\ \A k \in DOMAIN tenantConnections' :
                 tenantConnections'[k] # frames[p].conn
     /\ \A k \in DOMAIN tenantConnections' :
          connections'[tenantConnections'[k]].state # "new"
     /\ \A p \in Procs, sch \in SchemaNames :
          (GetLookup(p, sch) /\ sch \notin DOMAIN tenantConnections) =>
            /\ frames'[p].pc = "initialize"
            /\ frames'[p].conn \notin DOMAIN connections
            /\ connections'[frames'[p].conn].state = "new"]_vars

\* a get failed to connect, the registry has no entry for its schema, and
\* another get for that schema is initializing a DataSource of its own
C16_Witness ==
  \E p, q \in Procs :
    /\ Done(p, "get") /\ frames[p].out = "ConnectionError"
    /\ frames[p].sch \notin DOMAIN tenantConnections
    /\ At(q, "get", "initialize") /\ frames[q].sch = frames[p].sch
    /\ Cardinality({c \in DOMAIN connections :
                      connections[c].schema = frames[p].sch}) = 2

\* --------------------------------------------------------------- C17
\* C17: a closeTenantConnection that returns after destroy() has closed the
\* connection it found cached and the registry has no entry for the schema;
\* called when the schema has no entry, or an entry whose connection is
\* already closed, it returns at once and changes nothing.
C17_CloseIdempotent ==
  [][\A p \in Procs :
       /\ (CloseDestroy(p) /\ frames'[p].out = "ok") =>
            /\ connections'[frames[p].conn].state = "destroyed"
            /\ frames[p].sch \notin DOMAIN tenantConnections'
       /\ \A sch \in SchemaNames :
            (/\ CloseLookup(p, sch)
             /\ \/ sch \notin DOMAIN tenantConnections
                \/ ~IsInitialized(tenantConnections[sch]))
            => /\ frames'[p].pc = "done" /\ frames'[p].out = "ok"
               /\ UNCHANGED <<tenantConnections, connections, tenants, schemas>>]_vars

\* a connection of a schema was closed and its entry removed, and two
\* closeTenantConnection calls for the schema have returned
C17_Witness ==
  \E p, q \in Procs :
    /\ p # q
    /\ Done(p, "close") /\ frames[p].out = "ok"
    /\ Done(q, "close") /\ frames[q].out = "ok"
    /\ frames[p].sch = frames[q].sch
    /\ frames[p].sch \notin DOMAIN tenantConnections
    /\ \E c \in DOMAIN connections :
         connections[c].schema = frames[p].sch /\ connections[c].state = "destroyed"

\* --------------------------------------------------------------- C18
\* C18: when closeAllConnections returns, the registry is empty and every
\* connection whose entry it removed is closed.
C18_DrainClosesAll ==
  [][\A p \in Procs :
       CloseAllClear(p) =>
         /\ frames'[p].out = "ok"
         /\ tenantConnections' = <<>>
         /\ \A k \in DOMAIN tenantConnections :
              ~IsInitialized(tenantConnections[k])]_vars

\* --------------------------------------------------------------- C19
\* C19: a remove(id) that throws has changed nothing: the step that fails
\* changes no record and no schema, and no schema that an earlier step of the
\* call dropped is missing; a remove that found no record changed nothing.
C19_RemoveAllOrNothing ==
  [][\A p \in Procs :
       /\ (RemoveDropFail(p) \/ RemoveSoftDeleteFail(p)) =>
            /\ frames'[p].pc = "done" /\ frames'[p].out = "BadRequest"
            /\ UNCHANGED <<tenants, schemas>>
            /\ frames[p].sch # "" => frames[p].sch \in schemas'
       /\ \A id \in TenantIds :
            (RemoveFind(p, id) /\ frames'[p].out = "NotFound")
              => UNCHANGED <<tenants, schemas>>]_vars

\* --------------------------------------------------------------- C20
\* C20: when one create and one remove of the record it inserted are the
\* only calls made and both have settled, the record is not live and ACTIVE
\* without its schema, and its schema does not exist without a live record.
C20_CreateRemoveConsistent ==
  \A p, q \in Procs :
    (/\ calls = 2
     /\ Done(p, "create") /\ Done(q, "remove")
     /\ frames[p].id = frames[q].id /\ frames[q].out = "ok")
    => LET id == frames[p].id
           sch == SchemaNameOf(frames[p].dto.subdomain)
       IN /\ ~(Live(id) /\ tenants[id].status = ACTIVE /\ sch \notin schemas)
          /\ ~(sch \in schemas /\ ~Live(id))

\* --------------------------------------------------------------- C23
\* C23: a record enters the table with status PENDING, and the status of a
\* stored record changes only from PENDING to ACTIVE by the final save of
\* the create that inserted it, from ACTIVE to SUSPENDED by the save of a
\* suspend, and from SUSPENDED to ACTIVE by the save of an activate.
C23_StatusTransitions ==
  [][/\ \A i \in DOMAIN tenants' \ DOMAIN tenants : tenants'[i].status = PENDING
     /\ \A i \in DOMAIN tenants \cap DOMAIN tenants' :
          tenants'[i].status # tenants[i].status =>
            \/ /\ tenants[i].status = PENDING /\ tenants'[i].status = ACTIVE
               /\ \E p \in Procs : CreateFlip(p) /\ frames[p].id = i
            \/ /\ tenants[i].status = ACTIVE /\ tenants'[i].status = SUSPENDED
               /\ \E p \in Procs : SuspendSave(p) /\ frames[p].id = i
            \/ /\ tenants[i].status = SUSPENDED /\ tenants'[i].status = ACTIVE
               /\ \E p \in Procs : ActivateSave(p) /\ frames[p].id = i]_vars

\* --------------------------------------------------------------- C24
\* C24: remove tombstones the record only in the step after its schema drop
\* succeeded, and that drop leaves a connection that was cached for the
\* schema closed and without registry entry.
C24_TombstoneAfterDropAndEviction ==
  [][\A p \in Procs :
       /\ (At(p, "remove", "softDelete")' /\ ~At(p, "remove", "softDelete"))
            => RemoveDropOk(p)
       /\ \A i \in DOMAIN tenants \cap DOMAIN tenants' :
            (tenants'[i].deleted /\ ~tenants[i].deleted)
              => \E q \in Procs : RemoveSoftDelete(q) /\ frames[q].id = i
       /\ (RemoveDropOk(p) /\ frames[p].ent.schemaName \in DOMAIN tenantConnections)
            => /\ frames[p].ent.schemaName \notin DOMAIN tenantConnections'
               /\ connections'[tenantConnections[frames[p].ent.schemaName]].state
                    # "initialized"]_vars

\* --------------------------------------------------------------- C25
\* C25: no step of suspend or activate changes the registry or a connection,
\* and a registry entry disappears only in a step of dropTenantSchema,
\* closeTenantConnection or closeAllConnections.
C25_SuspendActivateKeepRegistry ==
  [][/\ \A p \in Procs :
          (\/ \E id \in TenantIds : SuspendFind(p, id) \/ ActivateFind(p, id)
           \/ SuspendSave(p) \/ ActivateSave(p))
            => UNCHANGED <<tenantConnections, connections>>
     /\ \A k \in DOMAIN tenantConnections \ DOMAIN tenantConnections' :
          \E p \in Procs :
            \/ RemoveDropOk(p) /\ frames[p].ent.schemaName = k
            \/ CloseDestroy(p) /\ frames[p].sch = k
            \/ CloseAllClear(p)]_vars

\* suspend of a tenant returned and the connection cached for the tenant's
\* schema is registered and open
C25_Witness ==
  \E p \in Procs :
    /\ Done(p, "suspend") /\ frames[p].out = "ok"
    /\ frames[p].ent.schemaName \in DOMAIN tenantConnections
    /\ IsInitialized(tenantConnections[frames[p].ent.schemaName])

\* --------------------------------------------------------------- C26
\* C26: every connection getTenantConnection returns is open when it is
\* returned.
C26_GetReturnsOpen ==
  [][\A p \in Procs :
       ((GetInitializeOk(p) \/ \E sch \in SchemaNames : GetLookup(p, sch))
        /\ frames'[p].pc = "done" /\ frames'[p].out = "ok")
       => connections'[frames'[p].conn].state = "initialized"]_vars

\* --------------------------------------------------------------- C27
\* C27: the schemaName of every stored record is "tenant_" followed by the
\* subdomain the record has now.
C27_SchemaNameFollowsSubdomain ==
  \A i \in DOMAIN tenants :
    tenants[i].schemaName = "tenant_" \o tenants[i].subdomain

\* --------------------------------------------------------------- C28
\* C28: when remove returns, the registry has no entry for the schemaName of
\* the record it removed.
C28_NoEntryAfterRemove ==
  [][\A p \in Procs :
       (RemoveSoftDelete(p) /\ frames'[p].out = "ok")
         => frames[p].ent.schemaName \notin DOMAIN tenantConnections']_vars

Holders(email) == {i \in DOMAIN users : users[i].email = email}

\* C21: register with an email already held by an existing user fails with
\* ConflictException, saves no user and issues no token, and so at most one
\* user ever holds a given email.
C21_OneUserPerEmail ==
  [][/\ \A p \in Procs : \A dto \in RegisterDtos :
         (RegisterCheck(p, dto) /\ Holders(dto.email) # {}) =>
           /\ authFrames'[p].pc = "done"
           /\ authFrames'[p].out = "Conflict"
           /\ users' = users
           /\ refreshTokens' = refreshTokens
     /\ \A e \in Emails : Cardinality(Holders(e)') <= 1]_vars

\* the users a login with this body may succeed as: the email is theirs, the
\* password matches, they are active
Valid(dto) ==
  {u \in DOMAIN users : /\ users[u].email = dto.email
                        /\ Compare(dto.password, users[u].password)
                        /\ users[u].isActive}

\* C22: login goes on to issue and return tokens only for a user with the
\* given email whose password matches and who is active; in every other case
\* it fails with UnauthorizedException and creates no refresh token.
C22_LoginOnlyValid ==
  [][\A p \in Procs :
       /\ \A dto \in LoginDtos :
            LoginValidate(p, dto) =>
              /\ refreshTokens' = refreshTokens
              /\ authFrames'[p].pc = "token" => authFrames'[p].user \in Valid(dto)
              /\ Valid(dto) = {} => /\ authFrames'[p].pc = "done"
                                    /\ authFrames'[p].out = "Unauthorized"
       /\ (authFrames'[p] # authFrames[p] /\ authFrames'[p].op = "login"
             /\ authFrames'[p].out = "ok") =>
            /\ AuthAt(p, "login", "token")
            /\ authFrames'[p].user = authFrames[p].user
            /\ authFrames'[p].token \in DOMAIN refreshTokens' \ DOMAIN refreshTokens
            /\ refreshTokens'[authFrames'[p].token].userId = authFrames[p].user]_vars

\* a login with the right password of a deactivated user was rejected
C22_Witness ==
  \E p \in Procs :
    /\ AuthDone(p, "login")
    /\ authFrames[p].out = "Unauthorized"
    /\ \E u \in DOMAIN users :
         /\ users[u].email = authFrames[p].email
         /\ Compare(authFrames[p].password, users[u].password)
         /\ ~users[u].isActive

\* C30: a refresh token is exchanged for a new pair at most once, and a
\* refreshToken call with a revoked, expired or unknown token fails with
\* UnauthorizedException and issues no new token.
C30_SingleUse ==
  [][\A p \in Procs :
       /\ RefreshGenerate(p) =>
            \A x \in pairs : x.from # authFrames[p].arg
       /\ \A tok \in TokenIds :
            (/\ RefreshValidate(p, tok)
             /\ \/ tok \notin DOMAIN refreshTokens
                \/ refreshTokens[tok].isRevoked
                \/ refreshTokens[tok].expired) =>
              /\ nextToken' = nextToken
              /\ \/ AuthAt(p, "refresh", "expire")'
                 \/ /\ authFrames'[p].pc = "done"
                    /\ authFrames'[p].out = "Unauthorized"]_vars

====
